---- MODULE Spec2Model ----
(***************************************************************************)
(* A state-machine model of the command-line scripts of the repository:   *)
(*   search_google_serp.py, search_arxiv_and_download.py,                  *)
(*   get_user_posts.py, get_linkedin_posts_browserbase.py,                 *)
(*   download_linkedin_html_ocr.py, deprecated/get_user_posts_browserbase. *)
(* One behaviour is one run of one script.  The variable script names the  *)
(* script, pc its position, args its parsed command line and environment.  *)
(* Time is counted in whole seconds.                                       *)
(***************************************************************************)
EXTENDS Integers, Sequences, FiniteSets, TLC

VARIABLES
    script,          \* which script this run executes
    pc,              \* position of the run
    args,            \* parsed arguments and the credentials found in the environment
    exit_code,       \* process exit status (meaningful once pc = "exit")
    stderr,          \* set of the kinds of message written to stderr
    files,           \* files and directories the run has written
    http_requests,   \* urlopen calls so far: of the run, and in query_arxiv of the
                     \* request_feed call in progress or just ended
    remote,          \* Browserbase objects created / released by the run
    now,             \* time.monotonic(), counted from the previous attempt of the helper
    attempt,         \* loop variable of request_json / request_feed
    last_request_at, \* request_json: time of the previous attempt (0), or -1 for None
    last,            \* what happened at the most recent attempt of the helper
    payload,         \* search_google_serp main: the parsed API response (its list of
                     \* raw results is drawn when main reads it)
    out,             \* records of the run's output document
    page_requests,   \* number of page requests of the pagination loop
    collected,       \* query_arxiv.collected / get_user_tweets.all_tweets / posts
    cursor,          \* pagination state of the loop
    last_page,       \* what the most recent page looked like
    context_file,    \* whether CONTEXT_FILE (.linkedin_context_id) exists
    seen,            \* seen_urns / seen_ids of the scrapers' scroll loop
    request,         \* search_google_serp main: the search request it sends
    result           \* return value of the function a run of one function applies

vars == <<script, pc, args, exit_code, stderr, files, http_requests, remote, now,
          attempt, last_request_at, last, payload, out, page_requests, collected,
          cursor, last_page, context_file, seen, request, result>>

----------------------------------------------------------------------------
(* Bounds of the model.                                                    *)

MaxRetries == 2      \* largest --max-retries
MaxItems == 2        \* longest list of raw results in an API response
MaxResults == 2      \* largest small --max-results / --max-posts
MaxPageLen == 2      \* longest page of a paginated API
MaxEnvLines == 2     \* most lines of a .env file
MaxVariants == 3     \* most variants of one video

BackoffValues == {0, 1}         \* --retry-backoff, in seconds
JitterValues == {0, 1}          \* --retry-jitter
DelayValues == {0, 2}           \* --api-delay
LatencyValues == {0, 1}         \* seconds one urlopen call takes
RetryAfterSeconds == {-1, 0, 7} \* numeric Retry-After values a server sends

Max(a, b) == IF a >= b THEN a ELSE b
Min(a, b) == IF a <= b THEN a ELSE b

RECURSIVE Pow2(_)
Pow2(n) == IF n <= 0 THEN 1 ELSE 2 * Pow2(n - 1)

\* Python's None for an optional number.
None == [some |-> FALSE, v |-> 0]
Some(x) == [some |-> TRUE, v |-> x]

NoHeader == [kind |-> "absent", n |-> 0]
NoAttempt == [kind |-> "none", code |-> 0, header |-> NoHeader, k |-> 0,
              retried |-> FALSE, sleep |-> 0]
NoPage == [n |-> 0, batch_size |-> 0, total |-> 0, start_after |-> 0,
           collected_after |-> 0, next_token |-> FALSE, stopped |-> FALSE]
NoPayload == [kind |-> "none", items |-> <<>>]
NoRequest == [method |-> "none", endpoint |-> "", num |-> 0, total_results |-> 0]
NoResult == [kind |-> "none"]
NoRemote == [contexts_retrieved |-> 0, contexts_created |-> 0,
             sessions_created |-> 0, sessions_released |-> 0]

----------------------------------------------------------------------------
(* HTTP: what a server or the network can answer to one urlopen call.      *)

StatusCodes == {404, 429, 501, 503}

\* search_google_serp.py:64 and search_arxiv_and_download.py:28
RETRYABLE_HTTP_CODES_without_503 == {429, 500, 502, 504}
RETRYABLE_HTTP_CODES == {429, 500, 502, 503, 504}

\* A Retry-After header: absent, "  ", a number of seconds, an HTTP date
\* (n is the instant it names on the model's clock) or unparseable text.
RetryAfterHeaders(t) ==
    {[kind |-> k, n |-> 0] : k \in {"absent", "blank", "garbage"}}
    \cup {[kind |-> "seconds", n |-> n] : n \in RetryAfterSeconds}
    \cup {[kind |-> "date", n |-> w] : w \in {t - 1, t + 7}}

\* The header as the attempt's record keeps it: a date is kept as the number
\* of seconds between the time t the response arrived and the instant it names.
SecondsFromNow(value, t) ==
    IF value.kind = "date" THEN [kind |-> "date", n |-> value.n - t] ELSE value

\* parse_retry_after_seconds(value), evaluated at time t.
parse_retry_after_seconds(value, t) ==
    IF value.kind = "absent" THEN None                       \* if not value
    ELSE IF value.kind = "blank" THEN None                     \* if not text
    ELSE IF value.kind = "seconds" THEN Some(Max(0, value.n))  \* float(text)
    ELSE IF value.kind = "date" THEN Some(Max(0, value.n - t)) \* parsedate_to_datetime
    ELSE None

\* throttle_request(min_delay_seconds, last_request_at) called at time t:
\* the seconds it sleeps; it returns the time after the sleep.
throttle_sleep(min_delay_seconds, last_at, t) ==
    LET delay == Max(0, min_delay_seconds)
    IN  IF delay > 0 /\ last_at >= 0 /\ delay - (t - last_at) > 0
        THEN delay - (t - last_at)
        ELSE 0

----------------------------------------------------------------------------
(* search_google_serp.py                                                   *)

Urls == {"", "http://a", "http://b"}   \* "" : no field holds an http(s) URL

\* A raw result of the API: a dict with its URL fields, or something else.
Items == {[isdict |-> FALSE, url |-> ""]} \cup {[isdict |-> TRUE, url |-> u] : u \in Urls}

ItemLists == UNION {[1..n -> Items] : n \in 0..MaxItems}

\* The JSON document of a successful response: null, a scalar, a list of raw
\* results, or a dict holding the list under one of the known keys.
PayloadKinds == {"null", "scalar", "list", "dict"}

\* request_json: attempts = max(0, int(max_retries)) + 1
json_attempts_one_more(max_retries) == Max(0, max_retries) + 2
json_attempts(max_retries) == Max(0, max_retries) + 1

\* can_retry taking every HTTP error as retryable.
json_can_retry_any_http_error(kind, status_code, att, attempts) ==
    IF kind \in {"http", "url"} THEN att < attempts - 1 ELSE FALSE

\* request_json: can_retry of the HTTPError and of the URLError handler.
json_can_retry(kind, status_code, att, attempts) ==
    IF kind = "http" THEN status_code \in RETRYABLE_HTTP_CODES /\ att < attempts - 1
    ELSE IF kind = "url" THEN att < attempts - 1
    ELSE FALSE

\* request_json: fallback = retry_backoff * 2 ** attempt + uniform(0, jitter)
json_fallback_constant(retry_backoff, att, jitter) == retry_backoff + jitter
json_fallback(retry_backoff, att, jitter) == retry_backoff * Pow2(att) + jitter

\* request_json: sleep_seconds = retry_after if retry_after is not None else fallback
json_sleep_seconds_added(retry_after, fallback) ==
    IF retry_after.some THEN retry_after.v + fallback ELSE fallback
json_sleep_seconds(retry_after, fallback) ==
    IF retry_after.some THEN retry_after.v ELSE fallback

\* What one urlopen call of request_json can produce at time t.
JsonResponses(t) ==
    {[kind |-> "ok", code |-> 200, retry_after |-> [kind |-> "absent", n |-> 0],
      payload |-> [kind |-> k, items |-> <<>>]] : k \in PayloadKinds}
    \cup {[kind |-> "badjson", code |-> 200, retry_after |-> [kind |-> "absent", n |-> 0],
           payload |-> NoPayload]}
    \cup {[kind |-> "url", code |-> 0, retry_after |-> [kind |-> "absent", n |-> 0],
           payload |-> NoPayload]}
    \cup {[kind |-> "http", code |-> c, retry_after |-> h, payload |-> NoPayload] :
            c \in StatusCodes, h \in RetryAfterHeaders(t)}

\* main: the argument checks before the base URL is looked at (lines 682-699).
serp_args_invalid(a) ==
    \/ a.max_results <= 0
    \/ a.start <= 0
    \/ a.max_retries < 0
    \/ a.retry_backoff < 0
    \/ a.retry_jitter < 0
    \/ a.api_delay < 0

\* main: whether the run gets to send its search request.
serp_proceeds(a) == ~a.print_agent_prompt /\ ~serp_args_invalid(a) /\ a.base_url # ""

\* main, line 745: capped_total = min(args.max_results, 100)
capped_total(max_results) == Min(max_results, 100)

\* main, lines 724-753: GET /search for up to 10 results, else POST /search/paged.
search_request(a) ==
    IF a.max_results <= 10
    THEN [method |-> "GET", endpoint |-> "/search", num |-> a.max_results,
          total_results |-> 0]
    ELSE [method |-> "POST", endpoint |-> "/search/paged", num |-> 10,
          total_results |-> capped_total(a.max_results)]

SerpArgs ==
    [print_agent_prompt : BOOLEAN,
     max_results : (0..MaxResults) \cup {11, 101},
     start : {1},
     max_retries : -1..MaxRetries,
     retry_backoff : BackoffValues,
     retry_jitter : JitterValues,
     api_delay : DelayValues,
     base_url : {"", "https://serp"}]

\* main with the output directory made before the base URL is looked at.
main_search_google_serp_mkdir_first ==
    /\ script = "serp" /\ pc = "main"
    /\ IF args.print_agent_prompt
       THEN /\ pc' = "exit"
            /\ UNCHANGED <<exit_code, stderr, files>>
       ELSE IF serp_args_invalid(args)
       THEN /\ pc' = "exit" /\ exit_code' = 1
            /\ stderr' = stderr \cup {"invalid_argument"}
            /\ UNCHANGED files
       ELSE IF args.base_url = ""
       THEN /\ pc' = "exit" /\ exit_code' = 1
            /\ stderr' = stderr \cup {"missing_credentials"}
            /\ files' = files \cup {"output_dir"}
       ELSE /\ pc' = "request_json"
            /\ files' = files \cup {"output_dir"}
            /\ UNCHANGED <<exit_code, stderr>>
    /\ request' = IF serp_proceeds(args) THEN search_request(args) ELSE request
    /\ UNCHANGED <<context_file, seen, script, args, result, http_requests, remote, now,
                   attempt, last_request_at, last, payload, out, page_requests,
                   collected, cursor, last_page>>

\* main, lines 672-722: --print-agent-prompt, the argument checks, the base URL
\* check, then the output directory is made.
main_search_google_serp ==
    /\ script = "serp" /\ pc = "main"
    /\ IF args.print_agent_prompt
       THEN /\ pc' = "exit"
            /\ UNCHANGED <<exit_code, stderr, files>>
       ELSE IF serp_args_invalid(args)
       THEN /\ pc' = "exit" /\ exit_code' = 1
            /\ stderr' = stderr \cup {"invalid_argument"}
            /\ UNCHANGED files
       ELSE IF args.base_url = ""
       THEN /\ pc' = "exit" /\ exit_code' = 1
            /\ stderr' = stderr \cup {"missing_credentials"}
            /\ UNCHANGED files
       ELSE /\ pc' = "request_json"
            /\ files' = files \cup {"output_dir"}
            /\ UNCHANGED <<exit_code, stderr>>
    /\ request' = IF serp_proceeds(args) THEN search_request(args) ELSE request
    /\ UNCHANGED <<context_file, seen, script, args, result, http_requests, remote, now,
                   attempt, last_request_at, last, payload, out, page_requests,
                   collected, cursor, last_page>>

\* One iteration of the retry loop of request_json (lines 293-332), called by
\* request_json_get (max_results <= 10) or request_json_post.  The clock is
\* read relative to the attempt's throttle_request: only differences matter.
request_json ==
    /\ script = "serp" /\ pc = "request_json"
    /\ \E lat \in LatencyValues, jit \in 0..Max(0, args.retry_jitter) :
        LET attempts == json_attempts(args.max_retries)
            t0 == now + throttle_sleep(args.api_delay, last_request_at, now)
            t1 == t0 + lat
        IN  \E resp \in JsonResponses(t1) :
            LET can_retry == json_can_retry(resp.kind, resp.code, attempt, attempts)
                retry_after == IF resp.kind = "http" /\ can_retry
                               THEN parse_retry_after_seconds(resp.retry_after, t1)
                               ELSE None
                fallback == json_fallback(args.retry_backoff, attempt, jit)
                sleep_seconds == json_sleep_seconds(retry_after, fallback)
                slept == IF can_retry THEN Max(0, sleep_seconds) ELSE 0
            IN  /\ http_requests' = http_requests + 1
                /\ last' = [kind |-> resp.kind, code |-> resp.code,
                            header |-> SecondsFromNow(resp.retry_after, t1),
                            k |-> attempt + 1,
                            retried |-> can_retry, sleep |-> slept]
                /\ IF can_retry
                   THEN /\ pc' = "request_json"
                        /\ attempt' = attempt + 1
                        /\ now' = (t1 - t0) + slept
                        /\ last_request_at' = 0
                        /\ UNCHANGED payload
                   ELSE /\ pc' = "main_after_request"
                        /\ attempt' = 0 /\ now' = 0 /\ last_request_at' = -1
                        /\ payload' = resp.payload
    /\ UNCHANGED <<context_file, seen, script, args, request, result, exit_code, stderr, files, remote, out, page_requests,
                   collected, cursor, last_page>>

\* find_results_list(payload)
find_results_list(p) == IF p.kind \in {"list", "dict"} THEN p.items ELSE <<>>

\* A response longer than the API's maximum of 100: 101 results, all different.
OverlongList == [i \in 1..101 |-> [isdict |-> TRUE, url |-> "http://r" \o ToString(i)]]

\* The lists a payload of this kind can hold.
PayloadItems(kind) ==
    IF kind \in {"list", "dict"} THEN ItemLists \cup {OverlongList} ELSE {<<>>}

\* Which records' pages fetch_and_save_html saves (the others fail); for a
\* list longer than MaxItems only the run that saves them all is followed.
FetchOutcomes(n) == IF n <= MaxItems THEN SUBSET (1..n) ELSE {1..n}

\* pick_url(item): the URL, or "" for None.
pick_url(item) == item.url

\* The loop body without the test of seen_urls.
normalize_step_without_seen_urls(raw, i, st) ==
    IF ~raw[i].isdict THEN st
    ELSE IF pick_url(raw[i]) = "" THEN st
    ELSE [normalized |-> Append(st.normalized,
                                [rank |-> Len(st.normalized) + 1,
                                 url |-> pick_url(raw[i]), item |-> i]),
          seen_urls |-> st.seen_urls \cup {pick_url(raw[i])}]

\* main, lines 789-800: the body of the loop that fills normalized, on item i,
\* after the test for the break; st holds normalized and seen_urls.
normalize_step(raw, i, st) ==
    IF ~raw[i].isdict THEN st                                            \* not a dict
    ELSE IF pick_url(raw[i]) = "" THEN st                                \* not record
    ELSE IF pick_url(raw[i]) \in st.seen_urls THEN st
    ELSE [normalized |-> Append(st.normalized,
                                [rank |-> Len(st.normalized) + 1,
                                 url |-> pick_url(raw[i]), item |-> i]),
          seen_urls |-> st.seen_urls \cup {pick_url(raw[i])}]

\* The value v itself: the state of a loop is computed when an iteration ends,
\* not when a later iteration reads it.
Computed(v) == CHOOSE s \in {v} : TRUE

\* main, lines 786-800: the loop that fills normalized, from item i on.
RECURSIVE normalize_loop(_, _, _, _)
normalize_loop(raw, i, st, max_results) ==
    IF i > Len(raw) THEN st
    ELSE IF Len(st.normalized) >= max_results THEN st                    \* break
    ELSE normalize_loop(raw, i + 1, Computed(normalize_step(raw, i, st)), max_results)

\* main with api_response.json written before the payload is looked at.
main_search_failed_after_saving ==
    /\ script = "serp" /\ pc = "main_after_request"
    /\ payload.kind \in {"none", "null"}
    /\ pc' = "exit" /\ exit_code' = 1
    /\ stderr' = stderr \cup {"search_failed"}
    /\ files' = files \cup {"api_response.json"}
    /\ UNCHANGED <<context_file, seen, script, args, request, result, http_requests, remote, now,
                   attempt, last_request_at, last, payload, out, page_requests,
                   collected, cursor, last_page>>

\* main, lines 774-778: the request raised RuntimeError, or the response was null.
main_search_failed ==
    /\ script = "serp" /\ pc = "main_after_request"
    /\ payload.kind \in {"none", "null"}
    /\ pc' = "exit" /\ exit_code' = 1
    /\ stderr' = stderr \cup {"search_failed"}
    /\ UNCHANGED <<context_file, seen, script, args, request, result, files, http_requests, remote, now, attempt,
                   last_request_at, last, payload, out, page_requests, collected,
                   cursor, last_page>>

\* main, lines 780-857: api_response.json, the normalized records, one fetch per
\* record (fetch_and_save_html never raises), index.html and search_results.json.
main_save_results ==
    /\ script = "serp" /\ pc = "main_after_request"
    /\ payload.kind \notin {"none", "null"}
    /\ \E items \in PayloadItems(payload.kind) :
        LET body == [kind |-> payload.kind, items |-> items]
            raw_results == find_results_list(body)
        IN  /\ payload' = body
            /\ \E recs \in {normalize_loop(raw_results, 1,
                                            [normalized |-> <<>>, seen_urls |-> {}],
                                            args.max_results).normalized} :
               \E saved \in FetchOutcomes(Len(recs)) :
                 out' = [i \in 1..Len(recs) |->
                           [rank |-> recs[i].rank, id |-> recs[i].url,
                            item |-> recs[i].item,
                            status |-> IF i \in saved THEN "saved" ELSE "failed"]]
    /\ files' = files \cup {"api_response.json", "html_results", "index.html",
                            "search_results.json"}
    /\ pc' = "exit"
    /\ UNCHANGED <<context_file, seen, script, args, request, result, exit_code, stderr, http_requests, remote, now, attempt,
                   last_request_at, last, page_requests, collected, cursor, last_page>>

InitSerp ==
    /\ script = "serp"
    /\ context_file = FALSE
    /\ args \in SerpArgs

----------------------------------------------------------------------------
(* search_arxiv_and_download.py                                            *)

MAX_API_RESULTS == 30000
MAX_PAGE_SIZE == 2000

ArxivIds == {"x1", "x2"}

\* The entries of one Atom feed, in order, by arxiv_id.
Pages == UNION {[1..n -> ArxivIds] : n \in 0..MaxPageLen}

\* opensearch:totalResults of a feed (0 also stands for a missing or bad value).
Totals == {0, 2, 9}

\* What one urlopen call of request_feed can produce.
FeedResponses ==
    {[kind |-> "ok", code |-> 200,
      feed |-> [kind |-> "feed", items |-> p, total |-> t]] : p \in Pages, t \in Totals}
    \cup {[kind |-> "ok", code |-> 200, feed |-> [kind |-> "badxml", items |-> <<>>, total |-> 0]]}
    \cup {[kind |-> "url", code |-> 0, feed |-> [kind |-> "none", items |-> <<>>, total |-> 0]]}
    \cup {[kind |-> "http", code |-> c, feed |-> [kind |-> "none", items |-> <<>>, total |-> 0]] :
            c \in StatusCodes}

\* request_feed: attempts = max_retries + 1
feed_attempts(max_retries) == max_retries + 1

\* request_feed: the conditions under which the two handlers sleep and continue.
feed_can_retry(kind, code, att, attempts) ==
    IF kind = "http" THEN code \in RETRYABLE_HTTP_CODES /\ att < attempts
    ELSE IF kind = "url" THEN att < attempts
    ELSE FALSE

\* request_feed: wait_seconds = retry_backoff * (2 ** (attempt - 1))
feed_wait_seconds(retry_backoff, att) == retry_backoff * Pow2(att - 1)

\* main: target_count = min(args.max_results, MAX_API_RESULTS - args.start)
arxiv_target_count(a) == Min(a.max_results, MAX_API_RESULTS - a.start)

\* query_arxiv: batch_size = min(page_size, target_count - len(collected), MAX_PAGE_SIZE)
arxiv_batch_size(a, n_collected) ==
    Min(Min(a.page_size, arxiv_target_count(a) - n_collected), MAX_PAGE_SIZE)

\* main: the argument checks of lines 377-400, each of which returns 2.
arxiv_args_invalid(a) ==
    \/ ~a.has_query
    \/ a.max_results <= 0
    \/ a.start < 0
    \/ a.page_size <= 0 \/ a.page_size > MAX_PAGE_SIZE
    \/ a.start >= MAX_API_RESULTS
    \/ a.max_retries < 0
    \/ a.retry_backoff < 0

ArxivArgs ==
    [has_query : BOOLEAN,
     max_results : 0..MaxResults,
     start : {0, 1},
     page_size : 0..MaxPageLen,
     max_retries : -1..MaxRetries,
     retry_backoff : BackoffValues,
     no_download : BOOLEAN]

\* main, lines 375-416, and the entry of query_arxiv up to its first request.
main_search_arxiv ==
    /\ script = "arxiv" /\ pc = "main"
    /\ IF arxiv_args_invalid(args)
       THEN /\ pc' = "exit" /\ exit_code' = 2
            /\ stderr' = stderr \cup {"invalid_argument"}
            /\ UNCHANGED <<files, cursor, attempt, page_requests>>
       ELSE /\ files' = files \cup {"output_dir", "pdfs"}
            /\ cursor' = args.start                     \* current_start = start
            /\ pc' = "request_feed"                    \* len(collected) < target_count
            /\ attempt' = 1
            /\ page_requests' = page_requests + 1
            /\ UNCHANGED <<exit_code, stderr>>
    /\ UNCHANGED <<context_file, seen, script, args, request, result, http_requests, remote, now, last_request_at, last,
                   payload, out, collected, last_page>>

\* One iteration of the retry loop of request_feed (lines 133-162).
request_feed ==
    /\ script = "arxiv" /\ pc = "request_feed"
    /\ \E resp \in FeedResponses :
        LET attempts == feed_attempts(args.max_retries)
            can_retry == feed_can_retry(resp.kind, resp.code, attempt, attempts)
            wait_seconds == IF can_retry
                            THEN feed_wait_seconds(args.retry_backoff, attempt)
                            ELSE 0
        IN  /\ http_requests' = http_requests + 1
            /\ last' = [kind |-> resp.kind, code |-> resp.code, header |-> NoHeader,
                        k |-> attempt, retried |-> can_retry, sleep |-> wait_seconds]
            /\ IF can_retry
               THEN /\ pc' = "request_feed"            \* sleep, then continue
                    /\ attempt' = attempt + 1
                    /\ UNCHANGED payload
               ELSE IF resp.kind = "ok"
               THEN /\ pc' = "query_arxiv"
                    /\ attempt' = 0
                    /\ payload' = resp.feed
               ELSE /\ pc' = "main_query_raised"       \* raise RuntimeError
                    /\ attempt' = 0
                    /\ UNCHANGED payload
    /\ UNCHANGED <<context_file, seen, script, args, request, result, exit_code, stderr, files, remote,
                   now, last_request_at, out, page_requests, collected, cursor,
                   last_page>>

\* query_arxiv, lines 203-217: which of the loop's breaks a page takes.
arxiv_page_stops_no_short_break(n, batch_size, total, start_after) ==
    \/ n = 0
    \/ total # 0 /\ start_after >= total
arxiv_page_stops(n, batch_size, total, start_after) ==
    \/ n = 0                                     \* if not batch_entries: break
    \/ n < batch_size                            \* if len(batch_entries) < batch_size
    \/ total # 0 /\ start_after >= total         \* if total_available and ...

\* query_arxiv: return collected[:target_count]
arxiv_result_untruncated(all, target_count) == all
arxiv_result(all, target_count) == SubSeq(all, 1, Min(Len(all), target_count))

\* collected.extend(batch_entries) that leaves out entries already collected.
arxiv_extend_new_ids_only(all, batch_entries) ==
    all \o SelectSeq(batch_entries, LAMBDA e : \A i \in 1..Len(all) : all[i] # e)

\* query_arxiv, line 208: collected.extend(batch_entries)
arxiv_extend(all, batch_entries) == all \o batch_entries

\* query_arxiv, lines 203-219: the feed of one page is parsed and added; the
\* loop then breaks, ends because the target is reached, or asks for the next
\* page (the head of the next iteration, lines 186-195).
query_arxiv ==
    /\ script = "arxiv" /\ pc = "query_arxiv"
    /\ IF payload.kind = "badxml"
       THEN /\ pc' = "main_query_raised"             \* ET.fromstring raises ParseError
            /\ UNCHANGED <<collected, cursor, last_page, page_requests, attempt,
                           http_requests>>
       ELSE LET batch_entries == payload.items
                n == Len(batch_entries)
                batch_size == arxiv_batch_size(args, Len(collected))
                all == arxiv_extend(collected, batch_entries)
                start_after == cursor + n
                target_count == arxiv_target_count(args)
                stops == arxiv_page_stops(n, batch_size, payload.total, start_after)
                again == ~stops /\ Len(all) < target_count
            IN  /\ cursor' = start_after
                /\ last_page' = [n |-> n, batch_size |-> batch_size,
                                 total |-> payload.total, start_after |-> start_after,
                                 collected_after |-> Len(all), next_token |-> FALSE,
                                 stopped |-> stops]
                /\ IF again
                   THEN /\ collected' = all
                        /\ pc' = "request_feed"
                        /\ attempt' = 1
                        /\ http_requests' = 0
                        /\ page_requests' = page_requests + 1
                   ELSE /\ collected' = arxiv_result(all, target_count)
                        /\ pc' = "main_query_returned"
                        /\ UNCHANGED <<page_requests, attempt, http_requests>>
    /\ payload' = NoPayload
    /\ UNCHANGED <<context_file, seen, script, args, request, result, exit_code, stderr, files, remote, now,
                   last_request_at, last, out>>

\* main, lines 433-435: query_arxiv raised.
main_arxiv_failed ==
    /\ script = "arxiv" /\ pc = "main_query_raised"
    /\ pc' = "exit" /\ exit_code' = 1
    /\ stderr' = stderr \cup {"search_failed"}
    /\ UNCHANGED <<context_file, seen, script, args, request, result, files, http_requests, remote, now, attempt,
                   last_request_at, last, payload, out, page_requests, collected,
                   cursor, last_page>>

\* download_status values download_entries can leave on an entry ("exists" and
\* "no_pdf_url" are left like "downloaded" and "error"); "pending" is what
\* parse_feed sets and --no-download keeps.
DownloadStatuses(no_download) ==
    IF no_download THEN {"pending"}
    ELSE {"downloaded", "error"}

\* main, lines 437-472: download_entries unless --no-download, then metadata.json.
main_arxiv_save ==
    /\ script = "arxiv" /\ pc = "main_query_returned"
    /\ \E status \in [1..Len(collected) -> DownloadStatuses(args.no_download)] :
         out' = [i \in 1..Len(collected) |-> [rank |-> i, id |-> collected[i],
                                              status |-> status[i]]]
    /\ files' = files \cup {"metadata.json"}
    /\ pc' = "exit"
    /\ UNCHANGED <<context_file, seen, script, args, request, result, exit_code, stderr, http_requests, remote, now, attempt,
                   last_request_at, last, payload, page_requests, collected, cursor,
                   last_page>>

InitArxiv ==
    /\ script = "arxiv"
    /\ context_file = FALSE
    /\ args \in ArxivArgs

----------------------------------------------------------------------------
(* get_user_posts.py                                                       *)

TweetIds == {"t1", "t2"}

\* data of one page of GET /2/users/:id/tweets, in order, by tweet id.
TweetPages == UNION {[1..n -> TweetIds] : n \in 0..MaxPageLen}

\* What one urlopen call of make_request can produce: an HTTP error, a network
\* error, a body that is not JSON, or a JSON document.
XResponses ==
    {[kind |-> "http", code |-> c] : c \in StatusCodes}
    \cup {[kind |-> k, code |-> 0] : k \in {"url", "badjson"}}
    \cup {[kind |-> "ok", code |-> 200]}

\* make_request (lines 75-85): what the call does with a response: it returns
\* the document, or the process ends with status 1; it never asks again.
make_request_retrying(resp) ==
    IF resp.kind = "ok" THEN [returns |-> TRUE, retried |-> FALSE, message |-> "none"]
    ELSE IF resp.kind = "http" /\ resp.code \in RETRYABLE_HTTP_CODES
    THEN [returns |-> FALSE, retried |-> TRUE, message |-> "retry"]
    ELSE [returns |-> FALSE, retried |-> FALSE, message |-> "http_error"]
make_request(resp) ==
    IF resp.kind = "ok" THEN [returns |-> TRUE, retried |-> FALSE, message |-> "none"]
    ELSE IF resp.kind = "http"
    THEN [returns |-> FALSE, retried |-> FALSE, message |-> "http_error"]  \* sys.exit(1)
    ELSE IF resp.kind = "url"
    THEN [returns |-> FALSE, retried |-> FALSE, message |-> "url_error"]   \* sys.exit(1)
    ELSE [returns |-> FALSE, retried |-> FALSE, message |-> "traceback"]   \* JSONDecodeError

XArgs ==
    [bearer_token : {"", "token"},
     max_results : 1..MaxResults,
     output : {"", "posts.json"}]

\* main, lines 375-380, with get_bearer_token (lines 57-64).
main_get_user_posts ==
    /\ script = "xapi" /\ pc = "main"
    /\ IF args.bearer_token = ""
       THEN /\ pc' = "exit" /\ exit_code' = 1
            /\ stderr' = stderr \cup {"missing_credentials"}
       ELSE /\ pc' = "get_user_by_username"
            /\ UNCHANGED <<exit_code, stderr>>
    /\ UNCHANGED <<context_file, seen, script, args, request, result, files, http_requests, remote, now, attempt,
                   last_request_at, last, payload, out, page_requests, collected,
                   cursor, last_page>>

\* get_user_by_username (lines 93-104): one make_request; a document with
\* errors and no data means the user was not found.
get_user_by_username ==
    /\ script = "xapi" /\ pc = "get_user_by_username"
    /\ \E resp \in XResponses, found \in BOOLEAN :
        LET r == make_request(resp)
        IN  /\ http_requests' = http_requests + 1
            /\ last' = [kind |-> resp.kind, code |-> resp.code, header |-> NoHeader,
                        k |-> 1, retried |-> r.retried, sleep |-> 0]
            /\ IF r.retried
               THEN /\ pc' = pc
                    /\ UNCHANGED <<exit_code, stderr>>
               ELSE IF ~r.returns
               THEN /\ pc' = "exit" /\ exit_code' = 1
                    /\ stderr' = stderr \cup {r.message}
               ELSE IF ~found
               THEN /\ pc' = "exit" /\ exit_code' = 1
                    /\ stderr' = stderr \cup {"user_not_found"}
               ELSE /\ pc' = "get_user_tweets"
                    /\ UNCHANGED <<exit_code, stderr>>
    /\ UNCHANGED <<context_file, seen, script, args, request, result, files, remote, now, attempt, last_request_at, payload,
                   out, page_requests, collected, cursor, last_page>>

\* get_user_tweets, lines 149-165: which of the loop's breaks a page takes.
tweets_page_stops_ignoring_token(n, n_all, next_token, max_results) ==
    \/ n = 0
    \/ max_results # 0 /\ n_all >= max_results
tweets_page_stops(n, n_all, next_token, max_results) ==
    \/ n = 0                                     \* if not tweets: break
    \/ max_results # 0 /\ n_all >= max_results   \* if max_results and len(...) >= ...
    \/ ~next_token                               \* if not pagination_token: break

\* get_user_tweets: all_tweets = all_tweets[:max_results] when the maximum is reached.
tweets_result(all, max_results) ==
    IF max_results # 0 /\ Len(all) >= max_results
    THEN SubSeq(all, 1, max_results)
    ELSE all

\* One iteration of the loop of get_user_tweets (lines 125-169): one
\* make_request for a page, then the breaks.  The pagination token is opaque:
\* only whether the page carries one (next_token) is modelled.
get_user_tweets ==
    /\ script = "xapi" /\ pc = "get_user_tweets"
    /\ \E resp \in XResponses, tweets \in TweetPages, next_token \in BOOLEAN :
        LET r == make_request(resp)
            n == Len(tweets)
            all == collected \o tweets
            stops == tweets_page_stops(n, Len(all), next_token, args.max_results)
        IN  /\ http_requests' = http_requests + 1
            /\ page_requests' = page_requests + 1
            /\ last' = [kind |-> resp.kind, code |-> resp.code, header |-> NoHeader,
                        k |-> 1, retried |-> r.retried, sleep |-> 0]
            /\ IF r.retried
               THEN /\ pc' = pc
                    /\ UNCHANGED <<exit_code, stderr, collected, last_page>>
               ELSE IF ~r.returns
               THEN /\ pc' = "exit" /\ exit_code' = 1
                    /\ stderr' = stderr \cup {r.message}
                    /\ UNCHANGED <<collected, last_page>>
               ELSE /\ last_page' = [n |-> n, batch_size |-> 10, total |-> 0,
                                     start_after |-> 0, collected_after |-> Len(all),
                                     next_token |-> next_token, stopped |-> stops]
                    /\ collected' = IF n = 0 THEN collected
                                    ELSE tweets_result(all, args.max_results)
                    /\ pc' = IF stops THEN "main_output" ELSE "get_user_tweets"
                    /\ UNCHANGED <<exit_code, stderr>>
    /\ UNCHANGED <<context_file, seen, script, args, request, result, files, remote, now, attempt, last_request_at, payload,
                   out, cursor>>

\* main, lines 394-433: the output document, written to --output or printed.
main_output_posts ==
    /\ script = "xapi" /\ pc = "main_output"
    /\ out' = [i \in 1..Len(collected) |-> [rank |-> i, id |-> collected[i],
                                            status |-> "tweet"]]
    /\ files' = IF args.output = "" THEN files ELSE files \cup {args.output}
    /\ pc' = "exit"
    /\ UNCHANGED <<context_file, seen, script, args, request, result, exit_code, stderr, http_requests, remote, now, attempt,
                   last_request_at, last, payload, page_requests, collected, cursor,
                   last_page>>

InitX ==
    /\ script = "xapi"
    /\ context_file = FALSE
    /\ args \in XArgs

----------------------------------------------------------------------------
(* get_linkedin_posts_browserbase.py ("linkedin"),                         *)
(* download_linkedin_html_ocr.py ("linkedin_html") and                     *)
(* deprecated/get_user_posts_browserbase.py ("xbb")                        *)

max_scroll_attempts == 10

\* What extraction finds in one post element of the page: its data-urn (or
\* status id) and its text, "" when there is none.
PostElements ==
    {[id |-> "", text |-> ""], [id |-> "", text |-> "ta"],
     [id |-> "u1", text |-> "ta"], [id |-> "u2", text |-> "tb"]}

\* The post elements one pass over the page finds, in order.
SnapshotLengths == 0..2
Snapshots == UNION {[1..n -> PostElements] : n \in SnapshotLengths}

NoPost == [some |-> FALSE, v |-> [id |-> "", text |-> ""]]

\* extract_linkedin_post: the post, or None when it has neither text nor id.
extract_linkedin_post(el) ==
    IF el.text # "" \/ el.id # "" THEN [some |-> TRUE, v |-> el] ELSE NoPost

\* extract_post_data: the post, or None when it has no id.
extract_post_data(el) ==
    IF el.id # "" THEN [some |-> TRUE, v |-> el] ELSE NoPost

\* The key a post is remembered by: post.get("id") or post.get("text", "")[:50]
\* in scrape_linkedin_profile, post.get("id") in scrape_user_posts.
post_key(scr, post) ==
    IF scr = "linkedin" /\ post.id = "" THEN post.text ELSE post.id

\* The for loop without the test against the identifiers already seen.
RECURSIVE collect_loop_without_seen(_, _, _, _, _, _)
collect_loop_without_seen(scr, els, i, posts, seen_ids, max_posts) ==
    IF i > Len(els) THEN [posts |-> posts, seen |-> seen_ids]
    ELSE IF Len(posts) >= max_posts THEN [posts |-> posts, seen |-> seen_ids]
    ELSE LET post == IF scr = "linkedin" THEN extract_linkedin_post(els[i])
                     ELSE extract_post_data(els[i])
         IN  IF post.some
             THEN collect_loop_without_seen(scr, els, i + 1, Append(posts, post.v),
                               seen_ids \cup {post_key(scr, post.v)}, max_posts)
             ELSE collect_loop_without_seen(scr, els, i + 1, posts, seen_ids,
                                            max_posts)

\* The for loop leaving the pass at the first element whose extraction fails.
RECURSIVE collect_loop_stops_at_failure(_, _, _, _, _, _)
collect_loop_stops_at_failure(scr, els, i, posts, seen_ids, max_posts) ==
    IF i > Len(els) THEN [posts |-> posts, seen |-> seen_ids]
    ELSE IF Len(posts) >= max_posts THEN [posts |-> posts, seen |-> seen_ids]
    ELSE LET post == IF scr = "linkedin" THEN extract_linkedin_post(els[i])
                     ELSE extract_post_data(els[i])
         IN  IF ~post.some THEN [posts |-> posts, seen |-> seen_ids]
             ELSE IF post_key(scr, post.v) \notin seen_ids
             THEN collect_loop_stops_at_failure(scr, els, i + 1,
                               Append(posts, post.v),
                               seen_ids \cup {post_key(scr, post.v)}, max_posts)
             ELSE collect_loop_stops_at_failure(scr, els, i + 1, posts, seen_ids,
                                                max_posts)

\* The for loop over the post elements of one pass (linkedin lines 372-385,
\* deprecated lines 129-141), from element i on.  An element whose extraction
\* gives None is skipped: by the except clause in scrape_linkedin_profile
\* (None.get raises), by the test of post in scrape_user_posts.
RECURSIVE collect_loop(_, _, _, _, _, _)
collect_loop(scr, els, i, posts, seen_ids, max_posts) ==
    IF i > Len(els) THEN [posts |-> posts, seen |-> seen_ids]
    ELSE IF Len(posts) >= max_posts THEN [posts |-> posts, seen |-> seen_ids]  \* break
    ELSE LET post == IF scr = "linkedin" THEN extract_linkedin_post(els[i])
                     ELSE extract_post_data(els[i])
         IN  IF post.some /\ post_key(scr, post.v) \notin seen_ids
             THEN collect_loop(scr, els, i + 1, Append(posts, post.v),
                               seen_ids \cup {post_key(scr, post.v)}, max_posts)
             ELSE collect_loop(scr, els, i + 1, posts, seen_ids, max_posts)

Credentials == {"", "set"}

LinkedinArgs ==
    [profile : {"", "johndoe", "https://example.com/johndoe"},
     reset_session : BOOLEAN,
     saved_context : BOOLEAN,      \* .linkedin_context_id is there at the start
     max_posts : 0..MaxResults,
     packages : BOOLEAN,
     api_key : Credentials, project_id : Credentials,
     email : Credentials, password : Credentials]

XbbArgs ==
    [max_posts : 0..MaxResults,
     packages : BOOLEAN,
     api_key : Credentials, project_id : Credentials]

\* normalize_linkedin_url: whether it ends the process (an http URL without
\* /in/ or /company/).
linkedin_url_invalid(profile) == profile = "https://example.com/johndoe"

\* --reset-session leaving the saved context ID where it is.
reset_session_keeps_file(flag, exists) == exists

\* main, linkedin lines 591-597: whether CONTEXT_FILE exists after the
\* handling of --reset-session.
handle_reset_session(flag, exists) == IF flag THEN FALSE ELSE exists

\* main of both LinkedIn scripts (--reset-session, the profile argument,
\* normalize_linkedin_url) and the head of scrape_linkedin_profile /
\* download_linkedin_html: the imports, get_browserbase_credentials,
\* get_linkedin_credentials and, in download_linkedin_html, the output directory.
main_linkedin ==
    /\ script \in {"linkedin", "linkedin_html"} /\ pc = "main"
    /\ context_file' = handle_reset_session(args.reset_session, context_file)
    /\ IF args.profile = "" /\ args.reset_session
       THEN /\ pc' = "exit"
            /\ UNCHANGED <<exit_code, stderr, files>>
       ELSE IF args.profile = ""
       THEN /\ pc' = "exit" /\ exit_code' = 2                 \* parser.error
            /\ stderr' = stderr \cup {"usage"}
            /\ UNCHANGED files
       ELSE IF linkedin_url_invalid(args.profile)
       THEN /\ pc' = "exit" /\ exit_code' = 1
            /\ stderr' = stderr \cup {"invalid_argument"}
            /\ UNCHANGED files
       ELSE IF ~args.packages
       THEN /\ pc' = "exit" /\ exit_code' = 1
            /\ stderr' = stderr \cup {"missing_packages"}
            /\ UNCHANGED files
       ELSE IF args.api_key = "" \/ args.project_id = ""
       THEN /\ pc' = "exit" /\ exit_code' = 1
            /\ stderr' = stderr \cup {"missing_credentials"}
            /\ UNCHANGED files
       ELSE IF args.email = "" \/ args.password = ""
       THEN /\ pc' = "exit" /\ exit_code' = 1
            /\ stderr' = stderr \cup {"missing_credentials"}
            /\ UNCHANGED files
       ELSE /\ pc' = "get_or_create_context"
            /\ files' = IF script = "linkedin_html" THEN files \cup {"output_dir"}
                        ELSE files
            /\ UNCHANGED <<exit_code, stderr>>
    /\ UNCHANGED <<seen, script, args, request, result, http_requests, remote, now, attempt,
                   last_request_at, last, payload, out, page_requests, collected,
                   cursor, last_page>>

\* main of the deprecated X scraper and the head of scrape_user_posts: the
\* imports and get_browserbase_credentials.
main_get_user_posts_browserbase ==
    /\ script = "xbb" /\ pc = "main"
    /\ IF ~args.packages
       THEN /\ pc' = "exit" /\ exit_code' = 1
            /\ stderr' = stderr \cup {"missing_packages"}
       ELSE IF args.api_key = "" \/ args.project_id = ""
       THEN /\ pc' = "exit" /\ exit_code' = 1
            /\ stderr' = stderr \cup {"missing_credentials"}
       ELSE /\ pc' = "sessions_create"
            /\ UNCHANGED <<exit_code, stderr>>
    /\ UNCHANGED <<context_file, seen, script, args, request, result, files, http_requests, remote, now,
                   attempt, last_request_at, last, payload, out, page_requests,
                   collected, cursor, last_page>>

\* get_or_create_context: a saved context ID is retrieved and, if Browserbase
\* still knows it, used; otherwise a context is created and its ID saved.  A
\* failing contexts.create is an uncaught exception.
get_or_create_context ==
    /\ script \in {"linkedin", "linkedin_html"} /\ pc = "get_or_create_context"
    /\ \E still_valid \in BOOLEAN, create_ok \in BOOLEAN :
         IF context_file /\ still_valid
         THEN /\ remote' = [remote EXCEPT !.contexts_retrieved = @ + 1]
              /\ pc' = "sessions_create"
              /\ UNCHANGED <<context_file, exit_code, stderr>>
         ELSE IF create_ok
         THEN /\ remote' = [remote EXCEPT
                              !.contexts_retrieved = IF context_file THEN @ + 1 ELSE @,
                              !.contexts_created = @ + 1]
              /\ context_file' = TRUE
              /\ pc' = "sessions_create"
              /\ UNCHANGED <<exit_code, stderr>>
         ELSE /\ remote' = [remote EXCEPT
                              !.contexts_retrieved = IF context_file THEN @ + 1 ELSE @]
              /\ pc' = "exit" /\ exit_code' = 1
              /\ stderr' = stderr \cup {"traceback"}
              /\ UNCHANGED context_file
    /\ UNCHANGED <<seen, script, args, request, result, files, http_requests, now, attempt,
                   last_request_at, last, payload, out, page_requests, collected,
                   cursor, last_page>>

\* The release made only when the try block is left without an exception.
release_unless_exception(r, way_out) ==
    IF way_out \in {"exception", "exception_after_profile"} THEN r
    ELSE [r EXCEPT !.sessions_released = @ + 1]

\* The finally clause (linkedin lines 401-403, deprecated lines 157-159):
\* bb.sessions.update(session.id, status="REQUEST_RELEASE", ...), whichever
\* way the try block is left.
finally_release(r, way_out) == [r EXCEPT !.sessions_released = @ + 1]

\* bb.sessions.create(...): the session, or an uncaught exception.
sessions_create ==
    /\ script \in {"linkedin", "linkedin_html", "xbb"} /\ pc = "sessions_create"
    /\ \E create_ok \in BOOLEAN :
         IF create_ok
         THEN /\ remote' = [remote EXCEPT !.sessions_created = @ + 1]
              /\ pc' = "browse"
              /\ UNCHANGED <<exit_code, stderr>>
         ELSE /\ pc' = "exit" /\ exit_code' = 1
              /\ stderr' = stderr \cup {"traceback"}
              /\ UNCHANGED remote
    /\ UNCHANGED <<context_file, seen, script, args, request, result, files, http_requests, now, attempt,
                   last_request_at, last, payload, out, page_requests, collected,
                   cursor, last_page>>

\* How the part of the try block before the scroll loop can end.
BrowseOutcomes(scr) ==
    IF scr = "linkedin"
    THEN {"exception", "login_failed", "login_wall", "not_found", "ok"}
    ELSE {"exception", "not_found", "suspended", "ok"}

\* scrape_linkedin_profile lines 310-366 and scrape_user_posts lines 89-123:
\* connect, log in (LinkedIn), open the profile.  Every way out but "ok"
\* leaves through the finally clause, which releases the session; main then
\* exits with status 1 (result is None, or the exception is uncaught).
scrape_open_profile ==
    /\ script \in {"linkedin", "xbb"} /\ pc = "browse"
    /\ \E outcome \in BrowseOutcomes(script) :
         IF outcome = "ok"
         THEN /\ pc' = "scroll"
              /\ UNCHANGED <<remote, exit_code, stderr>>
         ELSE /\ remote' = finally_release(remote, outcome)
              /\ pc' = "exit" /\ exit_code' = 1
              /\ stderr' = stderr \cup {IF outcome = "exception" THEN "traceback"
                                        ELSE outcome}
    /\ UNCHANGED <<context_file, seen, script, args, request, result, files, http_requests, now, attempt,
                   last_request_at, last, payload, out, page_requests, collected,
                   cursor, last_page>>

\* Whether extraction gives a post for the element.
extracts(scr, el) ==
    IF scr = "linkedin" THEN extract_linkedin_post(el).some
    ELSE extract_post_data(el).some

\* The elements of a pass that give a post whose key was seen before the pass.
reread(scr, els, seen_ids) ==
    {i \in 1..Len(els) : extracts(scr, els[i]) /\ post_key(scr, els[i]) \in seen_ids}

\* One iteration of the while loop that scrolls and collects (linkedin lines
\* 368-390, deprecated lines 125-146); cursor is scroll_attempts.  An
\* exception of locator(...).all() or evaluate leaves through finally.
\* payload records the elements of the latest pass and how many of them had
\* been collected by an earlier pass.
collect_posts ==
    /\ script \in {"linkedin", "xbb"} /\ pc = "scroll"
    /\ Len(collected) < args.max_posts /\ cursor < max_scroll_attempts
    /\ \E els \in Snapshots, raises \in BOOLEAN :
         IF raises
         THEN /\ remote' = finally_release(remote, "exception")
              /\ pc' = "exit" /\ exit_code' = 1
              /\ stderr' = stderr \cup {"traceback"}
              /\ UNCHANGED <<collected, seen, cursor, payload>>
         ELSE LET r == collect_loop(script, els, 1, collected, seen, args.max_posts)
              IN  /\ collected' = r.posts
                  /\ seen' = r.seen
                  /\ cursor' = cursor + 1
                  /\ payload' = [kind |-> "snapshot", items |-> els,
                                 reread |-> Cardinality(reread(script, els, seen))]
                  /\ UNCHANGED <<remote, pc, exit_code, stderr>>
    /\ UNCHANGED <<context_file, script, args, request, result, files, http_requests, now, attempt,
                   last_request_at, last, out, page_requests, last_page>>

\* The loop has ended: the result document is returned, finally releases the
\* session, and main writes the document to --output.
return_posts ==
    /\ script \in {"linkedin", "xbb"} /\ pc = "scroll"
    /\ ~(Len(collected) < args.max_posts /\ cursor < max_scroll_attempts)
    /\ remote' = finally_release(remote, "return")
    /\ out' = [i \in 1..Len(collected) |->
                 [rank |-> i, id |-> collected[i].id, status |-> "post"]]
    /\ files' = files \cup {"posts.json"}
    /\ pc' = "exit"
    /\ UNCHANGED <<context_file, seen, script, args, request, result, exit_code, stderr, http_requests,
                   now, attempt, last_request_at, last, payload, page_requests,
                   collected, cursor, last_page>>

\* download_linkedin_html lines 292-374: log in, save the profile page, then
\* the activity page; finally releases the session on every way out.
download_linkedin_html ==
    /\ script = "linkedin_html" /\ pc = "browse"
    /\ \E outcome \in {"exception", "login_failed", "exception_after_profile", "ok"} :
        /\ files' = files \cup
                      (IF outcome \in {"exception_after_profile", "ok"}
                       THEN {"profile.html"} ELSE {})
                      \cup (IF outcome = "ok" THEN {"activity.html"} ELSE {})
        /\ IF outcome = "ok"
           THEN UNCHANGED <<exit_code, stderr>>
           ELSE /\ exit_code' = 1
                /\ stderr' = stderr \cup {IF outcome = "login_failed" THEN outcome
                                          ELSE "traceback"}
        /\ remote' = finally_release(remote, outcome)
    /\ pc' = "exit"
    /\ UNCHANGED <<context_file, seen, script, args, request, result, http_requests, now, attempt,
                   last_request_at, last, payload, out, page_requests, collected,
                   cursor, last_page>>

InitBrowserbase ==
    \/ /\ script \in {"linkedin", "linkedin_html"}
       /\ args \in LinkedinArgs
       /\ context_file = args.saved_context
    \/ /\ script = "xbb"
       /\ args \in XbbArgs
       /\ context_file = FALSE

----------------------------------------------------------------------------
----------------------------------------------------------------------------
(* Functions checked on their own: a run applies one function to one input *)
(* (args) and leaves what it returned or changed in result.                *)

\* load_env_file ("load_env"), get_user_posts.py lines 25-48 and
\* search_google_serp.py lines 37-58.  A string is a sequence of characters.
EnvKeys == {"K", "J"}
EnvValues ==
    {<<>>, <<"a">>, <<"\"">>, <<"'">>, <<"\"", "\"">>, <<"\"", "a", "\"">>,
     <<"'", "a", "'">>, <<"\"", "a", "'">>, <<"\"", "a">>,
     <<" ", "\"", "a", "\"">>, <<"\"", "\"", "a", "\"", "\"">>}

\* The lines of .env after line.strip(): comment or empty lines, lines
\* without "=", and KEY=VALUE lines split at the first "=".
EnvLines ==
    {[kind |-> "comment", key |-> "", value |-> <<>>],
     [kind |-> "no_equals", key |-> "", value |-> <<>>],
     [kind |-> "pair", key |-> "J", value |-> <<"b">>]}
    \cup {[kind |-> "pair", key |-> "K", value |-> v] : v \in EnvValues}

Unset == [some |-> FALSE, v |-> <<>>]
SetTo(v) == [some |-> TRUE, v |-> v]

\* str.strip() for the blank.
RECURSIVE strip(_)
strip(v) ==
    IF v # <<>> /\ v[1] = " " THEN strip(Tail(v))
    ELSE IF v # <<>> /\ v[Len(v)] = " " THEN strip(SubSeq(v, 1, Len(v) - 1))
    ELSE v

startswith(v, c) == Len(v) > 0 /\ v[1] = c
endswith(v, c) == Len(v) > 0 /\ v[Len(v)] = c

\* value = value.strip(), then value[1:-1] when it starts and ends with the
\* same kind of quote.
env_value(raw) ==
    LET value == strip(raw)
    IN  IF \/ startswith(value, "\"") /\ endswith(value, "\"")
           \/ startswith(value, "'") /\ endswith(value, "'")
        THEN SubSeq(value, 2, Len(value) - 1)
        ELSE value

\* The for loop over the lines, from line i on.
RECURSIVE load_env_lines(_, _, _)
load_env_lines(lines, i, environ) ==
    IF i > Len(lines) THEN environ
    ELSE IF lines[i].kind # "pair" THEN load_env_lines(lines, i + 1, environ)
    ELSE IF environ[lines[i].key].some THEN load_env_lines(lines, i + 1, environ)
    ELSE load_env_lines(lines, i + 1,
             [environ EXCEPT ![lines[i].key] = SetTo(env_value(lines[i].value))])

LoadEnvArgs ==
    {a \in [env_exists : BOOLEAN,
            lines : UNION {[1..n -> EnvLines] : n \in 0..MaxEnvLines},
            environ : {[k \in EnvKeys |-> IF k = "K" THEN e ELSE Unset] :
                         e \in {Unset, SetTo(<<>>), SetTo(<<"x">>)}}] :
        ~a.env_exists => a.lines = <<>>}

load_env_file ==
    /\ script = "load_env" /\ pc = "main"
    /\ result' = [kind |-> "environ",
                  environ |-> IF args.env_exists
                              THEN load_env_lines(args.lines, 1, args.environ)
                              ELSE args.environ]
    /\ pc' = "exit"
    /\ UNCHANGED <<context_file, seen, script, args, request, exit_code, stderr,
                   files, http_requests, remote, now, attempt, last_request_at,
                   last, payload, out, page_requests, collected, cursor,
                   last_page>>

InitLoadEnv ==
    /\ script = "load_env"
    /\ context_file = FALSE
    /\ args \in LoadEnvArgs

\* linkedin_login ("login"), get_linkedin_posts_browserbase.py lines 141-264
\* and download_linkedin_html_ocr.py lines 140-238.
max_wait == 180

\* The URLs the page can be at, and the substrings the function tests for
\* that each of them contains.
LoginUrls ==
    {"https://www.linkedin.com/feed/", "https://www.linkedin.com/in/me/",
     "https://www.linkedin.com/mynetwork/",
     "https://www.linkedin.com/checkpoint/challenge/1",
     "https://www.linkedin.com/authwall?challenge=1",
     "https://www.linkedin.com/login",
     "https://www.linkedin.com/uas/login-submit",
     "https://www.linkedin.com/home"}

Markers(url) ==
    CASE url = "https://www.linkedin.com/feed/" -> {"/feed"}
      [] url = "https://www.linkedin.com/in/me/" -> {"/in/"}
      [] url = "https://www.linkedin.com/mynetwork/" -> {"/mynetwork"}
      [] url = "https://www.linkedin.com/checkpoint/challenge/1" ->
             {"/checkpoint", "/challenge", "challenge"}
      [] url = "https://www.linkedin.com/authwall?challenge=1" -> {"challenge"}
      [] url = "https://www.linkedin.com/login" -> {"/login"}
      [] url = "https://www.linkedin.com/uas/login-submit" -> {"/uas", "/login"}
      [] OTHER -> {}

\* "/feed" in current_url or "/in/" in current_url or "/mynetwork" in current_url
logged_in_url(url) == Markers(url) \cap {"/feed", "/in/", "/mynetwork"} # {}

\* The verdict on a page that is neither known as success nor as failure:
\* returning False.
login_verdict_false_when_uncertain(url) ==
    IF logged_in_url(url) THEN "true"
    ELSE IF Markers(url) \cap {"/checkpoint", "challenge"} # {} THEN "verify"
    ELSE "false"

\* The tests of the URL observed after sign-in, in the order of the code.
login_verdict(url) ==
    IF logged_in_url(url) THEN "true"
    ELSE IF Markers(url) \cap {"/checkpoint", "challenge"} # {} THEN "verify"
    ELSE IF Markers(url) \cap {"/login", "/uas"} # {} THEN "false"
    ELSE "true"   \* "Login status uncertain, proceeding anyway..."

\* One check of the polling loop: "continue" while still at the checkpoint.
poll_verdict(url) ==
    IF logged_in_url(url) THEN "true"
    ELSE IF Markers(url) \cap {"/checkpoint", "/challenge"} = {} THEN "true"
    ELSE "continue"

LoginSteps == {"exception", "no_email_input", "no_password_input",
               "no_sign_in_button", "submitted"}

\* From goto of the login page to the tests of the URL after sign-in.
linkedin_login ==
    /\ script = "login" /\ pc = "main"
    /\ \E step \in LoginSteps, url \in LoginUrls :
         IF step # "submitted"
         THEN /\ result' = [kind |-> "login", returned |-> FALSE, url |-> "",
                            step |-> step]
              /\ stderr' = stderr \cup {"login_error"}
              /\ pc' = "exit"
         ELSE LET verdict == login_verdict(url)
              IN  /\ result' = [kind |-> "login", returned |-> verdict = "true",
                                url |-> url, step |-> step]
                  /\ stderr' = stderr \cup
                                 (IF verdict = "true" THEN {} ELSE {"login_error"})
                  /\ pc' = IF verdict = "verify" THEN "verify" ELSE "exit"
    /\ UNCHANGED <<context_file, seen, script, args, request, exit_code, files,
                   http_requests, remote, now, attempt, last_request_at, last,
                   payload, out, page_requests, collected, cursor, last_page>>

\* One iteration of the loop that waits for manual verification; cursor is
\* waited.
linkedin_login_poll ==
    /\ script = "login" /\ pc = "verify" /\ cursor < max_wait
    /\ cursor' = cursor + 5
    /\ \E url \in LoginUrls :
         /\ result' = [result EXCEPT !.url = url,
                                     !.returned = poll_verdict(url) = "true"]
         /\ pc' = IF poll_verdict(url) = "true" THEN "exit" ELSE "verify"
    /\ UNCHANGED <<context_file, seen, script, args, request, exit_code, stderr,
                   files, http_requests, remote, now, attempt, last_request_at,
                   last, payload, out, page_requests, collected, last_page>>

\* The loop has used up max_wait: "Timeout. Still at: ...", return False.
linkedin_login_timeout ==
    /\ script = "login" /\ pc = "verify" /\ cursor >= max_wait
    /\ result' = [result EXCEPT !.returned = FALSE]
    /\ pc' = "exit"
    /\ UNCHANGED <<context_file, seen, script, args, request, exit_code, stderr,
                   files, http_requests, remote, now, attempt, last_request_at,
                   last, payload, out, page_requests, collected, cursor,
                   last_page>>

\* download_entries ("download"), search_arxiv_and_download.py lines 231-270.
\* An entry is its pdf_url and whether its target file is there before the
\* call; out holds, for the entries handled so far, download_status and what
\* the target file holds afterwards ("absent", "old" or "new").
DownloadEntries == [pdf_url : {"", "http://arxiv.org/pdf/1"}, exists : BOOLEAN]

DownloadArgs ==
    [entries : UNION {[1..n -> DownloadEntries] : n \in 1..MaxItems},
     overwrite : BOOLEAN, download_delay : DelayValues]

\* What one iteration does with its entry: always calling download_pdf when
\* there is a pdf_url.
entry_step_always_downloads(entry, overwrite, ok) ==
    IF entry.pdf_url = "" THEN "no_pdf_url"
    ELSE IF ok THEN "downloaded" ELSE "error"

\* What one iteration does with its entry (lines 249-263); ok says whether
\* download_pdf, if called, returns without an exception.
entry_step(entry, overwrite, ok) ==
    IF entry.pdf_url = "" THEN "no_pdf_url"
    ELSE IF entry.exists /\ ~overwrite THEN "exists"
    ELSE IF ok THEN "downloaded" ELSE "error"

\* downloaded and failed so far; both start at 0.
counters(r) ==
    IF r.kind = "none" THEN [downloaded |-> 0, failed |-> 0]
    ELSE [downloaded |-> r.downloaded, failed |-> r.failed]

\* One iteration of the for loop; cursor is the number of entries handled.
download_entries ==
    /\ script = "download" /\ pc = "main" /\ cursor < Len(args.entries)
    /\ \E ok \in BOOLEAN :
         LET entry == args.entries[cursor + 1]
             status == entry_step(entry, args.overwrite, ok)
             c == counters(result)
         IN  /\ out' = Append(out,
                    [rank |-> cursor + 1, id |-> entry.pdf_url, status |-> status,
                     file |-> IF status = "downloaded" THEN "new"
                              ELSE IF entry.exists THEN "old" ELSE "absent"])
             /\ http_requests' = http_requests
                                 + (IF status \in {"downloaded", "error"} THEN 1 ELSE 0)
             /\ result' = [kind |-> "download",
                           downloaded |-> c.downloaded
                                          + (IF status = "downloaded" THEN 1 ELSE 0),
                           failed |-> c.failed
                                      + (IF status \in {"no_pdf_url", "error"}
                                         THEN 1 ELSE 0)]
             /\ stderr' = stderr \cup (IF status = "error" THEN {"failed"} ELSE {})
             /\ now' = now + (IF /\ status \in {"downloaded", "error"}
                                 /\ cursor + 1 < Len(args.entries)
                              THEN args.download_delay ELSE 0)
    /\ cursor' = cursor + 1
    /\ UNCHANGED <<context_file, seen, script, args, request, exit_code, files,
                   remote, attempt, last_request_at, last, payload, pc,
                   page_requests, collected, last_page>>

\* The loop is over: return downloaded, failed.
download_entries_return ==
    /\ script = "download" /\ pc = "main" /\ cursor >= Len(args.entries)
    /\ result' = [kind |-> "download", downloaded |-> counters(result).downloaded,
                  failed |-> counters(result).failed]
    /\ pc' = "exit"
    /\ UNCHANGED <<context_file, seen, script, args, request, exit_code, stderr,
                   files, http_requests, remote, now, attempt, last_request_at,
                   last, payload, out, page_requests, collected, cursor,
                   last_page>>

InitDownload ==
    /\ script = "download"
    /\ context_file = FALSE
    /\ args \in DownloadArgs

\* select_video_variant ("select_video"), get_user_posts.py lines 206-240.
\* A variant is its content_type, its bit_rate (None when the key is missing)
\* and its url, which here tells the variants of a list apart.
VariantKinds ==
    [content_type : {"video/mp4", "application/x-mpegURL"},
     bit_rate : {None, Some(1), Some(3)}]

VariantLists ==
    UNION {{[i \in 1..n |-> [content_type |-> f[i].content_type,
                             bit_rate |-> f[i].bit_rate,
                             url |-> "v" \o ToString(i)]] :
               f \in [1..n -> VariantKinds]} : n \in 0..MaxVariants}

SelectArgs == [variants : VariantLists, max_bitrate : {0, 2}]

NoUrl == [some |-> FALSE, v |-> ""]

\* v.get("bit_rate", 0)
bit_rate_of(v) == IF v.bit_rate.some THEN v.bit_rate.v ELSE 0

\* [v for v in variants if v.get("content_type") == "video/mp4"]
mp4_variants(variants) == SelectSeq(variants, LAMBDA v : v.content_type = "video/mp4")

\* The list left in the order of the API.
sort_by_bit_rate_left_unsorted(variants) == variants

\* video_variants.sort(key=...): ascending and stable.
RECURSIVE insert_by_bit_rate(_, _)
insert_by_bit_rate(sorted, v) ==
    IF sorted = <<>> THEN <<v>>
    ELSE IF bit_rate_of(sorted[Len(sorted)]) <= bit_rate_of(v) THEN Append(sorted, v)
    ELSE Append(insert_by_bit_rate(SubSeq(sorted, 1, Len(sorted) - 1), v),
                sorted[Len(sorted)])

RECURSIVE sort_from(_, _, _)
sort_from(variants, i, sorted) ==
    IF i > Len(variants) THEN sorted
    ELSE sort_from(variants, i + 1, Computed(insert_by_bit_rate(sorted, variants[i])))

sort_by_bit_rate(variants) == sort_from(variants, 1, <<>>)

\* The for loop of lines 229-234, from variant i on: the index of selected, 0
\* for None.
RECURSIVE select_loop(_, _, _, _)
select_loop(video_variants, i, selected, max_bitrate) ==
    IF i > Len(video_variants) THEN selected
    ELSE IF bit_rate_of(video_variants[i]) <= max_bitrate
    THEN select_loop(video_variants, i + 1, i, max_bitrate)
    ELSE selected   \* break

\* The value the function returns.
selected_url(variants, max_bitrate) ==
    IF variants = <<>> THEN NoUrl
    ELSE LET video_variants == sort_by_bit_rate(mp4_variants(variants))
         IN  IF video_variants = <<>> THEN NoUrl
             ELSE LET selected == select_loop(video_variants, 1, 0, max_bitrate)
                  IN  IF selected = 0
                      THEN [some |-> TRUE, v |-> video_variants[1].url]
                      ELSE [some |-> TRUE, v |-> video_variants[selected].url]

select_video_variant ==
    /\ script = "select_video" /\ pc = "main"
    /\ result' = [kind |-> "variant",
                  url |-> selected_url(args.variants, args.max_bitrate)]
    /\ pc' = "exit"
    /\ UNCHANGED <<context_file, seen, script, args, request, exit_code, stderr,
                   files, http_requests, remote, now, attempt, last_request_at,
                   last, payload, out, page_requests, collected, cursor,
                   last_page>>

InitSelect ==
    /\ script = "select_video"
    /\ context_file = FALSE
    /\ args \in SelectArgs

\* json.dump(..., indent=2, ensure_ascii=False) of the output documents
\* ("json"): search_google_serp.py lines 831-851, search_arxiv_and_download.py
\* lines 454-470, get_user_posts.py lines 408-429.  A JSON value is a record
\* with its type t; a string is a sequence of characters, where a run of
\* characters that need no escape may stand as one element; a text is a
\* sequence of characters in the same sense.
JNull == [t |-> "null"]
JBool(b) == [t |-> "bool", b |-> b]
JInt(n) == [t |-> "int", n |-> n]
JFloat(repr) == [t |-> "float", repr |-> repr]
JStr(chars) == [t |-> "str", s |-> chars]
JList(items) == [t |-> "list", items |-> items]
JDict(members) == [t |-> "dict", members |-> members]
Member(k, v) == [k |-> k, v |-> v]

\* What float.__repr__ gives for the floats of the documents; the last three
\* are what json writes for nan and the infinities (allow_nan is left True).
FloatTokens == {"0.5", "2.0", "NaN", "Infinity", "-Infinity"}
JsonInts == -1..101

\* The newline and the indentation json puts before an item at a level.
Newline(level) == <<"\n">> \o [i \in 1..(2 * level) |-> " "]

\* A string character written without the backslash that escapes it.
escape_char_only_quotes(c) ==
    IF c = "\"" THEN <<"\\", "\"">>
    ELSE IF c = "\n" THEN <<"\\", "n">>
    ELSE <<c>>

\* json.encoder: the escapes of a string character with ensure_ascii=False.
escape_char(c) ==
    IF c = "\"" THEN <<"\\", "\"">>
    ELSE IF c = "\\" THEN <<"\\", "\\">>
    ELSE IF c = "\n" THEN <<"\\", "n">>
    ELSE <<c>>

RECURSIVE escape(_)
escape(chars) ==
    IF chars = <<>> THEN <<>> ELSE escape_char(Head(chars)) \o escape(Tail(chars))

dumps_string(chars) == <<"\"">> \o escape(chars) \o <<"\"">>

\* json.dumps(value, indent=2, ensure_ascii=False) at a nesting level.
RECURSIVE dumps_value(_, _)
RECURSIVE dumps_items(_, _, _)
RECURSIVE dumps_members(_, _, _)
dumps_value(v, level) ==
    CASE v.t = "null" -> <<"null">>
      [] v.t = "bool" -> IF v.b THEN <<"true">> ELSE <<"false">>
      [] v.t = "int" -> <<ToString(v.n)>>
      [] v.t = "float" -> <<v.repr>>
      [] v.t = "str" -> dumps_string(v.s)
      [] v.t = "list" ->
            IF v.items = <<>> THEN <<"[", "]">>
            ELSE <<"[">> \o Newline(level + 1) \o dumps_items(v.items, 1, level + 1)
                 \o Newline(level) \o <<"]">>
      [] v.t = "dict" ->
            IF v.members = <<>> THEN <<"{", "}">>
            ELSE <<"{">> \o Newline(level + 1)
                 \o dumps_members(v.members, 1, level + 1)
                 \o Newline(level) \o <<"}">>

dumps_items(items, i, level) ==
    dumps_value(items[i], level)
    \o (IF i = Len(items) THEN <<>>
        ELSE <<",">> \o Newline(level) \o dumps_items(items, i + 1, level))

dumps_members(members, i, level) ==
    dumps_string(members[i].k) \o <<":", " ">> \o dumps_value(members[i].v, level)
    \o (IF i = Len(members) THEN <<>>
        ELSE <<",">> \o Newline(level) \o dumps_members(members, i + 1, level))

dumps(v) == dumps_value(v, 0)

\* json.loads: the decoder, reading the text from a position on.
ParseError == [ok |-> FALSE, v |-> JNull, pos |-> 0]
Parsed(v, pos) == [ok |-> TRUE, v |-> v, pos |-> pos]

RECURSIVE skip_whitespace(_, _)
skip_whitespace(text, pos) ==
    IF pos <= Len(text) /\ text[pos] \in {" ", "\n"}
    THEN skip_whitespace(text, pos + 1) ELSE pos

char_at(text, pos) == IF pos <= Len(text) THEN text[pos] ELSE "<end>"

\* The characters of a string up to its closing quote.
RECURSIVE parse_chars(_, _, _)
parse_chars(text, pos, acc) ==
    LET c == char_at(text, pos)
        e == char_at(text, pos + 1)
    IN  IF c = "<end>" \/ c = "\n" THEN ParseError
        ELSE IF c = "\"" THEN Parsed(acc, pos + 1)
        ELSE IF c = "\\"
        THEN IF e \in {"\"", "\\", "/"} THEN parse_chars(text, pos + 2, Append(acc, e))
             ELSE IF e = "n" THEN parse_chars(text, pos + 2, Append(acc, "\n"))
             ELSE ParseError
        ELSE parse_chars(text, pos + 1, Append(acc, c))

\* dict semantics: a repeated key keeps its place and takes the later value.
RECURSIVE set_member(_, _, _)
set_member(members, k, v) ==
    IF members = <<>> THEN <<Member(k, v)>>
    ELSE IF Head(members).k = k THEN <<Member(k, v)>> \o Tail(members)
    ELSE <<Head(members)>> \o set_member(Tail(members), k, v)

RECURSIVE parse_value(_, _)
RECURSIVE parse_items(_, _, _)
RECURSIVE parse_members(_, _, _)
parse_value(text, start) ==
    LET pos == Computed(skip_whitespace(text, start))
        c == char_at(text, pos)
    IN  CASE c = "\"" ->
               LET r == Computed(parse_chars(text, pos + 1, <<>>))
               IN  IF r.ok THEN Parsed(JStr(r.v), r.pos) ELSE ParseError
          [] c = "[" ->
               LET p == Computed(skip_whitespace(text, pos + 1))
               IN  IF char_at(text, p) = "]" THEN Parsed(JList(<<>>), p + 1)
                   ELSE parse_items(text, p, <<>>)
          [] c = "{" ->
               LET p == Computed(skip_whitespace(text, pos + 1))
               IN  IF char_at(text, p) = "}" THEN Parsed(JDict(<<>>), p + 1)
                   ELSE parse_members(text, p, <<>>)
          [] c = "null" -> Parsed(JNull, pos + 1)
          [] c = "true" -> Parsed(JBool(TRUE), pos + 1)
          [] c = "false" -> Parsed(JBool(FALSE), pos + 1)
          [] c \in FloatTokens -> Parsed(JFloat(c), pos + 1)
          [] \E n \in JsonInts : ToString(n) = c ->
               Parsed(JInt(CHOOSE n \in JsonInts : ToString(n) = c), pos + 1)
          [] OTHER -> ParseError

parse_items(text, pos, acc) ==
    LET r == Computed(parse_value(text, pos))
        p == Computed(skip_whitespace(text, r.pos))
    IN  IF ~r.ok THEN ParseError
        ELSE IF char_at(text, p) = ","
        THEN parse_items(text, p + 1, Computed(Append(acc, r.v)))
        ELSE IF char_at(text, p) = "]" THEN Parsed(JList(Append(acc, r.v)), p + 1)
        ELSE ParseError

parse_members(text, pos, acc) ==
    LET q == Computed(skip_whitespace(text, pos))
        k == Computed(IF char_at(text, q) = "\"" THEN parse_chars(text, q + 1, <<>>)
                      ELSE ParseError)
        colon == Computed(skip_whitespace(text, k.pos))
        r == Computed(IF k.ok /\ char_at(text, colon) = ":"
                      THEN parse_value(text, colon + 1) ELSE ParseError)
        p == Computed(skip_whitespace(text, r.pos))
    IN  IF ~r.ok THEN ParseError
        ELSE IF char_at(text, p) = ","
        THEN parse_members(text, p + 1, Computed(set_member(acc, k.v, r.v)))
        ELSE IF char_at(text, p) = "}"
        THEN Parsed(JDict(set_member(acc, k.v, r.v)), p + 1)
        ELSE ParseError

\* json.loads(text): the value, or the error of a text that is not a document.
loads(text) ==
    LET r == Computed(parse_value(text, 1))
    IN  IF r.ok /\ skip_whitespace(text, r.pos) > Len(text) THEN r ELSE ParseError

\* The strings (names, titles, URLs) and the records of the documents.
JsonStrings ==
    {<<>>, <<"jane doe">>, <<"a", "\"", "b">>, <<"\\", "n">>, <<"line", "\n", "é">>,
     <<"http://r1/?q=a">>}

JsonRecords ==
    {JDict(<<Member(<<"rank">>, JInt(rank)), Member(<<"url">>, JStr(url)),
             Member(<<"title">>, title), Member(<<"authors">>, JList(authors))>>) :
        rank \in {1}, url \in {<<"http://r1/?q=a">>, <<"\\", "\"">>},
        title \in {JNull, JStr(<<"line", "\n", "é">>)},
        authors \in {<<>>, <<JStr(<<"a", "\"", "b">>)>>}}

\* A document of the shape the scripts write: scalars of the run, the retry
\* settings, and the list of records.
JsonDocuments ==
    {JDict(<<Member(<<"target_name">>, JStr(name)),
             Member(<<"results_found">>, JInt(Len(records))),
             Member(<<"retry_settings">>,
                    JDict(<<Member(<<"retry_jitter">>, JFloat(jitter))>>)),
             Member(<<"downloaded">>, JBool(Len(records) = 0)),
             Member(<<"results">>, JList(records))>>) :
        name \in JsonStrings, jitter \in {"0.5", "NaN"},
        records \in UNION {[1..n -> JsonRecords] : n \in 0..MaxItems}}

\* The document of a run as far as the model holds it: the count and the
\* records of out (search_google_serp.py lines 832-849).
document_of(records) ==
    JDict(<<Member(<<"results_found">>, JInt(Len(records))),
            Member(<<"results">>,
                   JList([i \in 1..Len(records) |->
                            JDict(<<Member(<<"rank">>, JInt(records[i].rank)),
                                    Member(<<"id">>, JStr(<<records[i].id>>)),
                                    Member(<<"status">>,
                                           JStr(<<records[i].status>>))>>)]))>>)

\* The lists of records the runs of the model leave in out: rank, id (URL,
\* arxiv_id or tweet id) and status.
RunRecords ==
    UNION {{[i \in 1..n |-> [rank |-> i, id |-> f[i].id, status |-> f[i].status]] :
               f \in [1..n -> [id : {"http://a", "x1", "t2"},
                               status : {"saved", "failed", "downloaded"}]]} :
           n \in 1..MaxItems}

\* main: the document is serialised and written to the output file.
write_document ==
    /\ script = "json" /\ pc = "main"
    /\ result' = [kind |-> "text", text |-> dumps(args.document)]
    /\ files' = files \cup {"output.json"}
    /\ pc' = "exit"
    /\ UNCHANGED <<context_file, seen, script, args, request, exit_code, stderr,
                   http_requests, remote, now, attempt, last_request_at, last,
                   payload, out, page_requests, collected, cursor, last_page>>

InitJson ==
    /\ script = "json"
    /\ context_file = FALSE
    /\ args \in [document : JsonDocuments \cup {document_of(recs) : recs \in RunRecords}]

InitLogin ==
    /\ script = "login"
    /\ context_file = FALSE
    /\ args \in [file : {"get_linkedin_posts_browserbase.py",
                         "download_linkedin_html_ocr.py"}]

InitCommon ==
    /\ pc = "main"
    /\ exit_code = 0
    /\ stderr = {}
    /\ files = {}
    /\ http_requests = 0
    /\ remote = NoRemote
    /\ now = 0
    /\ attempt = 0
    /\ last_request_at = -1
    /\ last = NoAttempt
    /\ payload = NoPayload
    /\ out = <<>>
    /\ page_requests = 0
    /\ collected = <<>>
    /\ cursor = 0
    /\ last_page = NoPage
    /\ seen = {}
    /\ request = NoRequest
    /\ result = NoResult

Init ==
    /\ InitCommon
    /\ \/ InitSerp
       \/ InitArxiv
       \/ InitX
       \/ InitBrowserbase
       \/ InitLoadEnv
       \/ InitLogin
       \/ InitDownload
       \/ InitSelect
       \/ InitJson

Next ==
    \/ main_search_google_serp
    \/ request_json
    \/ main_search_failed
    \/ main_save_results
    \/ main_search_arxiv
    \/ request_feed
    \/ query_arxiv
    \/ main_arxiv_failed
    \/ main_arxiv_save
    \/ main_get_user_posts
    \/ get_user_by_username
    \/ get_user_tweets
    \/ main_output_posts
    \/ main_linkedin
    \/ main_get_user_posts_browserbase
    \/ get_or_create_context
    \/ sessions_create
    \/ scrape_open_profile
    \/ collect_posts
    \/ return_posts
    \/ download_linkedin_html
    \/ load_env_file
    \/ linkedin_login
    \/ linkedin_login_poll
    \/ linkedin_login_timeout
    \/ download_entries
    \/ download_entries_return
    \/ select_video_variant
    \/ write_document

Spec == Init /\ [][Next]_vars

----------------------------------------------------------------------------
(* Properties.                                                             *)

\* C1: one call of request_json or request_feed issues at most
\* max_retries + 1 HTTP requests; with max_retries = 0 it issues exactly one
\* request and then returns or raises.  (search_google_serp.py calls
\* request_json once in a run; query_arxiv calls request_feed once per page.)
C1_AtMostMaxRetriesPlusOneRequests ==
    /\ script = "serp" =>
         /\ http_requests <= args.max_retries + 1
         /\ (args.max_retries = 0 /\ pc = "request_json") => http_requests = 0
         /\ (args.max_retries = 0 /\ pc = "main_after_request") => http_requests = 1
    /\ script = "arxiv" =>
         /\ http_requests <= args.max_retries + 1
         /\ (args.max_retries = 0 /\ pc = "request_feed") => http_requests = 0
         /\ (args.max_retries = 0 /\ pc \in {"query_arxiv", "main_query_raised"}) =>
               http_requests = 1

\* C1 witness: request_json has used all three attempts of --max-retries 2.
C1_Witness ==
    /\ script = "serp" /\ args.max_retries = 2
    /\ pc = "main_after_request" /\ http_requests = 3

C5_FailedSearchExits ==
    LET exhausted ==
          /\ last.k = args.max_retries + 1
          /\ \/ last.kind = "url"
             \/ last.kind = "http" /\ last.code \in {429, 500, 502, 503, 504}
    IN  /\ (script = "serp" /\ exhausted) =>
              /\ pc \in {"main_after_request", "exit"}
              /\ payload.kind = "none"
              /\ "api_response.json" \notin files
              /\ "search_results.json" \notin files
              /\ pc = "exit" => (exit_code = 1 /\ "search_failed" \in stderr)
        /\ (script = "arxiv" /\ exhausted) =>
              /\ pc \in {"main_query_raised", "exit"}
              /\ "metadata.json" \notin files
              /\ pc = "exit" => (exit_code = 1 /\ "search_failed" \in stderr)

\* C5 witness: arXiv's second page fails at every attempt after a first page
\* was fetched, and the run has ended.
C5_Witness ==
    /\ script = "arxiv" /\ pc = "exit" /\ page_requests = 2 /\ Len(collected) = 1
    /\ args.max_retries = 2 /\ last.k = 3 /\ last.kind = "http" /\ last.code = 503
    /\ exit_code = 1

\* C6 as stated: in get_user_posts.py an HTTP 429 or 5xx response is retried.
C6_XApiErrorsRetried ==
    (/\ script = "xapi"
     /\ last.kind = "http"
     /\ (last.code = 429 \/ last.code \in 500..599)) => last.retried

\* C6: in get_user_posts.py an HTTP error response, 429 and 5xx included, is
\* never retried: the request that got it is the run's last, the error is
\* reported on stderr and the process ends with status 1.
C6_XApiErrorsNotRetried ==
    (script = "xapi" /\ last.kind = "http") =>
        /\ ~last.retried
        /\ pc = "exit" /\ exit_code = 1 /\ "http_error" \in stderr

\* C6 witness: a 503 on the second tweets page has ended the run.
C6_Witness ==
    /\ script = "xapi" /\ last.kind = "http" /\ last.code = 503
    /\ page_requests = 2 /\ http_requests = 3 /\ pc = "exit"

\* C7: a run that needs a credential it does not have sends no HTTP request,
\* creates no Browserbase context or session and writes no file or directory,
\* and ends with status 1 and a message on stderr.  (A run that ends for its
\* arguments alone -- --print-agent-prompt, no profile argument -- ends as
\* those do.)
C7_MissingCredentialsExitFirst ==
    LET missing ==
          \/ script = "xapi" /\ args.bearer_token = ""
          \/ script = "serp" /\ args.base_url = ""
          \/ script = "xbb" /\ (args.api_key = "" \/ args.project_id = "")
          \/ script \in {"linkedin", "linkedin_html"}
               /\ \/ args.api_key = "" \/ args.project_id = ""
                  \/ args.email = "" \/ args.password = ""
        needed ==
          /\ script = "serp" => ~args.print_agent_prompt
          /\ script \in {"linkedin", "linkedin_html"} => args.profile # ""
    IN  missing =>
          /\ pc \in {"main", "exit"}
          /\ http_requests = 0
          /\ remote = NoRemote
          /\ files = {}
          /\ (pc = "exit" /\ needed) => (exit_code = 1 /\ stderr # {})

\* C7 witness: the HTML downloader, with the Browserbase credentials but no
\* LinkedIn password, has ended.
C7_Witness ==
    /\ script = "linkedin_html" /\ pc = "exit"
    /\ args.packages /\ args.profile = "johndoe"
    /\ args.api_key = "set" /\ args.project_id = "set"
    /\ args.email = "set" /\ args.password = ""
    /\ exit_code = 1 /\ "missing_credentials" \in stderr

\* C8: query_arxiv issues at most target_count page requests and none after a
\* page that is empty, is shorter than the batch asked for, brings the start
\* index to total_available (when positive) or brings the collected count to
\* target_count.
C8_QueryArxivStops ==
    script = "arxiv" =>
      LET target_count == IF args.max_results <= 30000 - args.start
                          THEN args.max_results ELSE 30000 - args.start
      IN  /\ page_requests <= IF target_count > 0 THEN target_count ELSE 0
          /\ (/\ last_page # NoPage
              /\ \/ last_page.n = 0
                 \/ last_page.n < last_page.batch_size
                 \/ last_page.total > 0 /\ last_page.start_after >= last_page.total
                 \/ last_page.collected_after >= target_count)
             => pc \in {"main_query_returned", "exit"}

\* C8 witness: a second page brought the count to the target of two and no
\* third was asked for.
C8_Witness ==
    /\ script = "arxiv" /\ pc = "main_query_returned" /\ page_requests = 2
    /\ args.max_results = 2 /\ last_page.collected_after = 2 /\ last_page.n = 1
    /\ last_page.total = 9

\* C9: for a positive max_results get_user_tweets issues at most max_results
\* page requests and none after a response without tweets, without
\* meta.next_token, or that brings the count to max_results or more.
C9_GetUserTweetsStops ==
    (script = "xapi" /\ args.max_results > 0) =>
      /\ page_requests <= args.max_results
      /\ (/\ last_page # NoPage
          /\ \/ last_page.n = 0
             \/ ~last_page.next_token
             \/ last_page.collected_after >= args.max_results)
         => pc \in {"main_output", "exit"}

\* C9 witness: the second page, which carried a token, reached the count and
\* ended the loop.
C9_Witness ==
    /\ script = "xapi" /\ pc = "main_output" /\ page_requests = 2
    /\ args.max_results = 2 /\ last_page.next_token
    /\ last_page.collected_after >= 2

\* C10: the run's output never holds more records than asked for: at most
\* max_results tweets, target_count arXiv entries, --max-results search
\* results, --max-posts LinkedIn posts.
C10_OutputWithinRequestedMaximum ==
    /\ script = "xapi" =>
         Len(collected) <= args.max_results /\ Len(out) <= args.max_results
    /\ script = "arxiv" =>
         /\ Len(out) <= args.max_results /\ Len(out) <= 30000 - args.start
         /\ pc \in {"main_query_returned", "exit"} =>
              (Len(collected) <= args.max_results
                 /\ Len(collected) <= 30000 - args.start)
    /\ script = "serp" => Len(out) <= args.max_results
    /\ script = "linkedin" =>
         Len(collected) <= args.max_posts /\ Len(out) <= args.max_posts

\* C10 witness: arXiv answered a request for one entry with a page of two,
\* and one record was written.
C10_Witness ==
    /\ script = "arxiv" /\ pc = "exit" /\ args.max_results = 1
    /\ last_page.n = 2 /\ last_page.batch_size = 1 /\ Len(out) = 1

\* C11 as stated: with --max-results above 100 the paged request asks for
\* total_results = 100 and search_results.json holds at most 100 results.
C11_ResultsCappedAt100 ==
    (script = "serp" /\ args.max_results > 100) =>
        /\ request # NoRequest => request.total_results = 100
        /\ Len(out) <= 100

\* C12: no two records of search_results.json have the same url, and each
\* record comes from the first raw item, in API order, that carries its URL.
C12_NoDuplicateUrls ==
    (script = "serp" /\ pc = "exit") =>
        /\ \A i, j \in 1..Len(out) : i # j => out[i].id # out[j].id
        /\ \A i \in 1..Len(out) :
             /\ out[i].item \in 1..Len(payload.items)
             /\ payload.items[out[i].item].isdict
             /\ payload.items[out[i].item].url = out[i].id
             /\ \A j \in 1..(out[i].item - 1) :
                  ~(payload.items[j].isdict /\ payload.items[j].url = out[i].id)
        /\ \A i \in 1..(Len(out) - 1) : out[i].item < out[i + 1].item

\* C12 witness: the API returned the same URL twice, two results were asked
\* for, and one record was written.
C12_Witness ==
    /\ script = "serp" /\ pc = "exit" /\ args.max_results = 2
    /\ Len(payload.items) = 2
    /\ payload.items[1].url = "http://a" /\ payload.items[2].url = "http://a"
    /\ Len(out) = 1 /\ out[1].item = 1

\* C13 as stated: the entries of metadata.json and the tweets output never
\* hold two records with the same id.
C13_NoDuplicateIds ==
    script \in {"arxiv", "xapi"} =>
        \A i, j \in 1..Len(out) : i # j => out[i].id # out[j].id

\* C13: neither fetcher compares ids.  Every page is appended whole, in server
\* order, to what was collected, the list is only cut to the requested count,
\* and the output holds exactly the collected list; an id that the server
\* repeats is therefore repeated in the output.
C13_PagesAppendedWithoutDedup ==
    [][ /\ (script = "arxiv" /\ pc = "query_arxiv" /\ pc' # "main_query_raised") =>
             LET all == collected \o payload.items
                 target_count == IF args.max_results <= 30000 - args.start
                                 THEN args.max_results ELSE 30000 - args.start
             IN  collected' = SubSeq(all, 1, IF Len(all) <= target_count
                                             THEN Len(all) ELSE target_count)
        /\ (script = "xapi" /\ pc = "get_user_tweets" /\ pc' # "exit") =>
             /\ Len(collected') = (IF Len(collected) + last_page'.n <= args.max_results
                                   THEN Len(collected) + last_page'.n
                                   ELSE args.max_results)
             /\ \A i \in 1..Len(collected) : collected'[i] = collected[i]
        /\ (script \in {"arxiv", "xapi"} /\ pc' = "exit" /\ out' # out) =>
             /\ Len(out') = Len(collected)
             /\ \A i \in 1..Len(collected) : out'[i].id = collected[i]
      ]_vars

\* C13 witness: arXiv's second page repeated the entry of the first, and
\* metadata.json holds it twice.
C13_Witness ==
    /\ script = "arxiv" /\ pc = "exit" /\ page_requests = 2
    /\ Len(out) = 2 /\ out[1].id = out[2].id

\* C14: the posts list of scrape_linkedin_profile never holds two posts with the
\* same data-urn, and that of scrape_user_posts never two posts with the same
\* tweet id (and none without an id), although every pass of the scroll loop
\* reads the elements of the page again.
C14_NoDuplicatePostIds ==
    script \in {"linkedin", "xbb"} =>
        /\ \A i, j \in 1..Len(collected) :
              (i # j /\ collected[i].id # "") => collected[i].id # collected[j].id
        /\ \A i, j \in 1..Len(out) :
              (i # j /\ out[i].id # "") => out[i].id # out[j].id
        /\ script = "xbb" => \A i \in 1..Len(collected) : collected[i].id # ""

\* A later pass has read an element again whose post an earlier pass had
\* collected, and the returned list holds that post once.
C14_Witness ==
    /\ script \in {"linkedin", "xbb"} /\ pc = "exit" /\ "posts.json" \in files
    /\ cursor >= 2 /\ payload.kind = "snapshot" /\ payload.reread >= 1
    /\ \E k \in 1..Len(payload.items) :
         /\ payload.items[k].id = "u1"
         /\ Cardinality({i \in 1..Len(out) : out[i].id = "u1"}) = 1

first_pair(lines, k) ==
    LET at == {i \in 1..Len(lines) : lines[i].kind = "pair" /\ lines[i].key = k}
    IN  IF at = {} THEN 0 ELSE CHOOSE i \in at : \A j \in at : i <= j

\* A value without its one pair of matching surrounding quotes, if it has one.
unquoted(v) ==
    IF Len(v) >= 2 /\ v[1] = v[Len(v)] /\ v[1] \in {"\"", "'"}
    THEN SubSeq(v, 2, Len(v) - 1) ELSE v

\* C16: load_env_file never overrides a variable that is already set, and a
\* variable that is not set takes the (trimmed) value of its first KEY=VALUE
\* line in .env, later lines for the key being ignored, with one pair of
\* matching surrounding quotes removed.
C16_EnvFileFirstLineWins ==
    (script = "load_env" /\ pc = "exit") =>
        \A k \in EnvKeys :
            IF args.environ[k].some THEN result.environ[k] = args.environ[k]
            ELSE IF args.env_exists /\ first_pair(args.lines, k) # 0
            THEN result.environ[k] =
                    SetTo(unquoted(strip(args.lines[first_pair(args.lines, k)].value)))
            ELSE result.environ[k] = Unset

handled_with(statuses) == {i \in 1..Len(out) : out[i].status \in statuses}

\* C18 as stated: an entry whose target file exists, with overwrite false,
\* gets download_status "exists", its file is left as it was, and it causes no
\* download request and no change of the downloaded and failed counters
\* (requests and counters being those of the entries with another status).
C18_ExistingFileAlwaysSkipped ==
    script = "download" =>
        /\ \A i \in 1..Len(out) :
              (args.entries[i].exists /\ ~args.overwrite) =>
                  out[i].status = "exists" /\ out[i].file = "old"
        /\ http_requests = Cardinality(handled_with({"downloaded", "error"}))
        /\ counters(result).downloaded = Cardinality(handled_with({"downloaded"}))
        /\ counters(result).failed =
              Cardinality(handled_with({"error", "no_pdf_url"}))

\* C18: an entry that has a pdf_url and whose target file exists, with
\* overwrite false, gets download_status "exists" and its file is left as it
\* was; download requests are made only for entries that end as "downloaded"
\* or "error", downloaded counts the former and failed the latter together
\* with the entries without pdf_url, so an "exists" entry changes none of them.
C18_ExistingFileSkipped ==
    script = "download" =>
        /\ \A i \in 1..Len(out) :
              (args.entries[i].pdf_url # "" /\ args.entries[i].exists
               /\ ~args.overwrite) =>
                  out[i].status = "exists" /\ out[i].file = "old"
        /\ http_requests = Cardinality(handled_with({"downloaded", "error"}))
        /\ counters(result).downloaded = Cardinality(handled_with({"downloaded"}))
        /\ counters(result).failed =
              Cardinality(handled_with({"error", "no_pdf_url"}))

\* A finished call that skipped an existing file and then downloaded another.
C18_Witness ==
    /\ script = "download" /\ pc = "exit" /\ ~args.overwrite /\ Len(out) = 2
    /\ args.entries[1].exists /\ out[1].status = "exists" /\ out[1].file = "old"
    /\ out[2].status = "downloaded"
    /\ http_requests = 1 /\ result.downloaded = 1 /\ result.failed = 0

\* C19: in a run of either LinkedIn script with --reset-session no saved
\* context ID is ever retrieved; once the handling of the flag is over the
\* context file is there only if the run has created a new context and saved
\* its ID, which a run that gets past get_or_create_context has done; and a
\* run with --reset-session and no profile ends with exit code 0 without any
\* credential check and without any call of Browserbase or LinkedIn.
C19_ResetSessionForgetsContext ==
    (script \in {"linkedin", "linkedin_html"} /\ args.reset_session) =>
        /\ remote.contexts_retrieved = 0
        /\ pc # "main" => (context_file <=> remote.contexts_created = 1)
        /\ pc \in {"sessions_create", "browse", "scroll"} =>
              context_file /\ remote.contexts_created = 1
        /\ (args.profile = "" /\ pc = "exit") =>
              /\ remote = NoRemote /\ http_requests = 0
              /\ exit_code = 0 /\ stderr = {} /\ files = {}

\* A context ID was saved before the run; the run with --reset-session and a
\* profile has created and saved a new context without retrieving the old one.
C19_Witness ==
    /\ script \in {"linkedin", "linkedin_html"} /\ args.reset_session
    /\ args.saved_context /\ args.profile = "johndoe"
    /\ pc = "sessions_create" /\ context_file
    /\ remote.contexts_created = 1 /\ remote.contexts_retrieved = 0

\* The positions of the video/mp4 variants of the call, and of those within
\* max_bitrate.
mp4_at == {i \in 1..Len(args.variants) : args.variants[i].content_type = "video/mp4"}
within_at == {i \in mp4_at : bit_rate_of(args.variants[i]) <= args.max_bitrate}

\* C20: select_video_variant returns, among the video/mp4 variants, the URL of
\* one with the highest bit_rate that is at most max_bitrate (a missing
\* bit_rate counting as 0); if every mp4 variant is above max_bitrate, the URL
\* of an mp4 variant with the lowest bit_rate; and None when there is no mp4
\* variant or the list is empty.
C20_BestVariantWithinMaxBitrate ==
    (script = "select_video" /\ pc = "exit") =>
        IF mp4_at = {} THEN result.url = NoUrl
        ELSE /\ result.url.some
             /\ \E i \in mp4_at :
                  /\ result.url.v = args.variants[i].url
                  /\ IF within_at # {}
                     THEN /\ i \in within_at
                          /\ \A j \in within_at :
                                bit_rate_of(args.variants[j])
                                    <= bit_rate_of(args.variants[i])
                     ELSE \A j \in mp4_at :
                                bit_rate_of(args.variants[i])
                                    <= bit_rate_of(args.variants[j])

\* A call whose list holds, in this order, an mp4 variant above max_bitrate,
\* one within it and a playlist; the URL of the second was returned.
C20_Witness ==
    /\ script = "select_video" /\ pc = "exit" /\ args.max_bitrate = 2
    /\ Len(args.variants) = 3
    /\ args.variants[1].content_type = "video/mp4"
    /\ args.variants[1].bit_rate = Some(3)
    /\ args.variants[2].content_type = "video/mp4"
    /\ args.variants[2].bit_rate = Some(1)
    /\ args.variants[3].content_type # "video/mp4"
    /\ result.url = [some |-> TRUE, v |-> "v2"]

C23_SessionReleasedOnce ==
    script \in {"linkedin", "linkedin_html", "xbb"} =>
        /\ remote.sessions_created <= 1
        /\ remote.sessions_released <= remote.sessions_created
        /\ pc \in {"browse", "scroll"} =>
              remote.sessions_created = 1 /\ remote.sessions_released = 0
        /\ pc = "exit" => remote.sessions_released = remote.sessions_created

\* A run whose try block was left by an exception after the session had been
\* created: the session has been released once.
C23_Witness ==
    /\ script \in {"linkedin", "linkedin_html", "xbb"} /\ pc = "exit"
    /\ "traceback" \in stderr
    /\ remote.sessions_created = 1 /\ remote.sessions_released = 1

====
